---- MODULE Spec2Model ----
(***************************************************************************)
(* Model of storepix's template upgrade subsystem (commands/init.js and    *)
(* commands/upgrade.js): the project on disk, the shipped templates, the   *)
(* persisted baseline .storepix-version.json and one `upgrade` run at a    *)
(* time, step by step; and of the line diff (utils/diff.js), under a       *)
(* specification of its own, SpecDiff.                                     *)
(*                                                                         *)
(* A path is a sequence of segments.  User files are keyed by their path   *)
(* below <targetDir>/templates, shipped files by their path below the      *)
(* package's templates directory.  A content is a sequence of bytes.       *)
(***************************************************************************)
EXTENDS Integers, Sequences, FiniteSets, TLC

VARIABLES
  projectExists,   \* existsSync(targetDir)
  userFs,          \* files below <targetDir>/templates: path -> content
  userDirs,        \* directories that exist directly below <targetDir>/templates
  versionFile,     \* <targetDir>/.storepix-version.json
  backups,         \* the .storepix-backup-<timestamp> directories: how many, and the newest
  pkgFs,           \* files below the package's templates directory
  pkgVersion,      \* pkg.version of the running tool
  pc,              \* position of the current upgrade run
  dryRun, force,   \* options of the current run
  versionInfo,     \* the run's versionInfo
  mainChanges,     \* result of analyzeChanges on the primary template
  statusBarChanges,\* result of analyzeChanges on status-bar (before prefixing)
  changes,         \* the merged change list
  k,               \* index of the next change to apply
  answer,          \* what was typed at the confirmation prompt
  out,             \* messages printed by the current run
  exitCode,        \* exit status of the last finished run
  fs0, dirs0, vf0, nb0,   \* userFs, userDirs, versionFile, backups.count at the run's start
  events,          \* how many user edits, releases and upgrade runs happened
  applied,         \* the user paths the apply loop wrote an upstream file to and
                   \* the user has not written or deleted since
  oldText, newText,\* the arguments of diff
  result,          \* what diff(oldText, newText) returned
  reversed,        \* what diff(newText, oldText) returned
  ops,             \* the diffResult given to formatDiff and countChanges
  contextLines,    \* the contextLines given to formatDiff
  called,          \* which of formatDiff and countChanges have returned
  formatted,       \* what formatDiff returned
  counts           \* what countChanges returned

vars == <<projectExists, userFs, userDirs, versionFile, backups, pkgFs,
          pkgVersion, pc, dryRun, force, versionInfo, mainChanges,
          statusBarChanges, changes, k, answer, out, exitCode, fs0, dirs0, vf0, nb0,
          events, applied, oldText, newText, result, reversed, ops,
          contextLines, called, formatted, counts>>

disk == <<projectExists, userFs, userDirs, versionFile, backups>>
runVars == <<dryRun, force, versionInfo, mainChanges, statusBarChanges,
             changes, k, answer, out, fs0, dirs0, vf0, nb0>>
envVars == <<pkgFs, pkgVersion, events>>
textVars == <<oldText, newText, result, reversed>>
opsVars == <<ops, contextLines, called, formatted, counts>>
diffVars == <<textVars, opsVars>>

----------------------------------------------------------------------------
(* Bounds: the number of user edits, releases and upgrade runs in a        *)
(* history, the number of characters of a text given to diff, the number   *)
(* of ops of a diffResult given to formatDiff and countChanges, and the    *)
(* largest contextLines                                                    *)
MaxEvents == 4
MaxTextLen == 4
MaxOps == 7
MaxContext == 2

----------------------------------------------------------------------------
(* The universe of files, contents and prompt answers *)

STATUS_BAR == "status-bar"
TemplateNames == {"default"}

EmptyMap == [x \in {} |-> x]

NoBackups == [count |-> 0, newest |-> EmptyMap]

\* bytes 'a', 'b' and 0xFF (never valid in UTF-8)
PkgContents == {<<97>>, <<98>>}
UserContents == {<<97>>, <<98>>, <<255>>}

\* what the first shipped version contains
InitialPkgFs ==
  (<<"default", "index.html">> :> <<97>>) @@ (<<STATUS_BAR, "bar.css">> :> <<97>>)

\* files a release may add, change or drop
PkgPaths ==
  { <<"default", "index.html">>,
    <<"default", STATUS_BAR, "bar.css">>,
    <<STATUS_BAR, "bar.css">> }

\* files the user may write or delete
UserPaths ==
  PkgPaths \cup { <<"default", "index.html.orig">> }

Answers ==
  { <<"y">>, <<"Y", "e", "S">>, <<"n">>, <<>>, <<"y", "e">>, <<"y", " ">> }

----------------------------------------------------------------------------
(* Helpers *)

Remove(f, x) == [y \in (DOMAIN f) \ {x} |-> f[y]]
Put(f, x, v) == [y \in (DOMAIN f) \cup {x} |-> IF y = x THEN v ELSE f[y]]

Perms(S) ==
  { s \in [1..Cardinality(S) -> S] :
      \A i, j \in 1..Cardinality(S) : s[i] = s[j] => i = j }

\* String.prototype.toLowerCase, per character
LowerChar(c) ==
  CASE c = "Y" -> "y" [] c = "E" -> "e" [] c = "S" -> "s" [] c = "N" -> "n"
    [] c = "O" -> "o" [] OTHER -> c
toLowerCase(s) == [i \in 1..Len(s) |-> LowerChar(s[i])]

\* readFileSync(path, 'utf-8') followed by writeFileSync(path, string):
\* a byte that is not valid UTF-8 decodes to U+FFFD, which encodes as EF BF BD
Utf8Byte(b) == IF b < 128 THEN <<b>> ELSE <<239, 191, 189>>
RECURSIVE Utf8RoundTrip(_)
Utf8RoundTrip(content) ==
  IF content = <<>> THEN <<>>
  ELSE Utf8Byte(Head(content)) \o Utf8RoundTrip(Tail(content))

\* createHash('md5').update(content).digest('hex'), taken to be collision free
hashFile(content) == <<"md5", content>>

\* path + '.orig'
Orig(path) ==
  SubSeq(path, 1, Len(path) - 1) \o << path[Len(path)] \o ".orig" >>

\* file.startsWith('status-bar/')
startsWithStatusBar(file) == Len(file) >= 2 /\ file[1] = STATUS_BAR

----------------------------------------------------------------------------
(* Directory snapshots *)

\* getAllFiles(dir): the relative paths of the files below a directory
getAllFiles(fs, dir) ==
  { Tail(p) : p \in { q \in DOMAIN fs : q[1] = dir } }

\* getFileHashes(dir)
getFileHashes(fs, dir) ==
  [file \in getAllFiles(fs, dir) |-> hashFile(fs[<<dir>> \o file])]

\* a shipped directory exists iff it ships at least one file
pkgDirExists(dir) == getAllFiles(pkgFs, dir) # {}

\* the iteration orders if the two lists were concatenated without the Set
allFilesOrders_noSet(userFiles, packageFiles) ==
  { u \o p : u \in Perms(userFiles), p \in Perms(packageFiles) }

\* the iteration orders of new Set([...userFiles, ...packageFiles]):
\* the user's files in directory order, then the files only the package has
allFilesOrders(userFiles, packageFiles) ==
  { u \o p : u \in Perms(userFiles), p \in Perms(packageFiles \ userFiles) }

----------------------------------------------------------------------------
(* Reconciliation *)

\* userModified if a missing baseline fingerprint counted as a difference
userModifiedOf_noBaselineCheck(originalHashes, file, userHash) ==
  IF file \notin DOMAIN originalHashes THEN "true"
  ELSE IF userHash # originalHashes[file] THEN "true" ELSE "false"

\* const userModified = originalHash && userHash !== originalHash
userModifiedOf(originalHashes, file, userHash) ==
  IF file \notin DOMAIN originalHashes THEN "undefined"
  ELSE IF userHash # originalHashes[file] THEN "true" ELSE "false"

\* the classification if a file only the user has got no record
classify_noRemoved(file, userDir, packageDir, originalHashes) ==
  LET userPath == <<userDir>> \o file
      packagePath == <<packageDir>> \o file
      userExists == userPath \in DOMAIN userFs
      packageExists == packagePath \in DOMAIN pkgFs
  IN IF packageExists /\ ~userExists
       THEN << [file |-> file, type |-> "added", userModified |-> "undefined"] >>
     ELSE IF userExists /\ packageExists
                /\ hashFile(userFs[userPath]) # hashFile(pkgFs[packagePath])
       THEN << [file |-> file, type |-> "modified",
                userModified |->
                  userModifiedOf(originalHashes, file,
                                 hashFile(userFs[userPath]))] >>
     ELSE <<>>

\* one iteration of the loop of analyzeChanges: zero or one record
classify(file, userDir, packageDir, originalHashes) ==
  LET userPath == <<userDir>> \o file
      packagePath == <<packageDir>> \o file
      userExists == userPath \in DOMAIN userFs
      packageExists == packagePath \in DOMAIN pkgFs
  IN IF packageExists /\ ~userExists
       THEN << [file |-> file, type |-> "added", userModified |-> "undefined"] >>
     ELSE IF userExists /\ ~packageExists
       THEN << [file |-> file, type |-> "removed", userModified |-> "undefined"] >>
     ELSE IF userExists /\ packageExists
       THEN LET userHash == hashFile(userFs[userPath])
                packageHash == hashFile(pkgFs[packagePath])
            IN IF userHash # packageHash
                 THEN << [file |-> file, type |-> "modified",
                          userModified |->
                            userModifiedOf(originalHashes, file, userHash)] >>
                 ELSE <<>>
     ELSE <<>>

\* analyzeChanges(userDir, packageDir, originalHashes), for one iteration order
RECURSIVE analyzeChanges(_, _, _, _)
analyzeChanges(allFiles, userDir, packageDir, originalHashes) ==
  IF allFiles = <<>> THEN <<>>
  ELSE classify(Head(allFiles), userDir, packageDir, originalHashes)
       \o analyzeChanges(Tail(allFiles), userDir, packageDir, originalHashes)

\* change.file = `status-bar/${change.file}`
prefixed(cs) ==
  [i \in 1..Len(cs) |-> [cs[i] EXCEPT !.file = <<STATUS_BAR>> \o cs[i].file]]

hasConflictsOf(cs) ==
  \E i \in 1..Len(cs) : cs[i].type = "modified" /\ cs[i].userModified = "true"

\* confirm() if any answer that starts with y counted as a yes
confirmed_anyY(a) == Len(a) >= 1 /\ toLowerCase(a)[1] = "y"

\* confirm(): what the prompt resolves to
confirmed(a) == toLowerCase(a) = <<"y">> \/ toLowerCase(a) = <<"y", "e", "s">>

----------------------------------------------------------------------------
(* The persisted baseline *)

NoVersionFile ==
  [state |-> "absent", version |-> 0, template |-> "", files |-> EmptyMap,
   hasStatusBarFiles |-> FALSE, statusBarFiles |-> EmptyMap]

CorruptVersionFile == [NoVersionFile EXCEPT !.state = "corrupt"]

\* updateVersionFile if it bumped the version but kept the fingerprints it read
updatedVersionInfo_staleHashes(fs, dirs, templateName) ==
  [state |-> "ok", version |-> pkgVersion, template |-> templateName,
   files |-> versionInfo.files,
   hasStatusBarFiles |-> STATUS_BAR \in dirs,
   statusBarFiles |-> versionInfo.statusBarFiles]

\* the record updateVersionFile(targetDir, templateName) writes
updatedVersionInfo(fs, dirs, templateName) ==
  [state |-> "ok", version |-> pkgVersion, template |-> templateName,
   files |-> getFileHashes(fs, templateName),
   hasStatusBarFiles |-> STATUS_BAR \in dirs,
   statusBarFiles |-> IF STATUS_BAR \in dirs
                        THEN getFileHashes(fs, STATUS_BAR) ELSE EmptyMap]

\* the record of init() if it wrote version and template only
initialVersionInfo_noFingerprints(fs, dirs, templateName) ==
  [state |-> "ok", version |-> pkgVersion, template |-> templateName,
   files |-> EmptyMap, hasStatusBarFiles |-> FALSE, statusBarFiles |-> EmptyMap]

\* the record init() writes
initialVersionInfo(fs, dirs, templateName) ==
  [state |-> "ok", version |-> pkgVersion, template |-> templateName,
   files |-> getFileHashes(fs, templateName),
   hasStatusBarFiles |-> TRUE,
   statusBarFiles |-> IF STATUS_BAR \in dirs
                        THEN getFileHashes(fs, STATUS_BAR) ELSE EmptyMap]

----------------------------------------------------------------------------
(* Initial state: the first release is installed, no project yet *)

InitUpgrade ==
  /\ projectExists = FALSE
  /\ userFs = EmptyMap
  /\ userDirs = {}
  /\ versionFile = NoVersionFile
  /\ backups = NoBackups
  /\ pkgFs = InitialPkgFs
  /\ pkgVersion = 1
  /\ pc = "idle"
  /\ dryRun = FALSE
  /\ force = FALSE
  /\ versionInfo = NoVersionFile
  /\ mainChanges = <<>>
  /\ statusBarChanges = <<>>
  /\ changes = <<>>
  /\ k = 0
  /\ answer = <<>>
  /\ out = <<>>
  /\ exitCode = 0
  /\ fs0 = EmptyMap
  /\ dirs0 = {}
  /\ vf0 = NoVersionFile
  /\ nb0 = 0
  /\ events = 0
  /\ applied = {}

NoTexts == oldText = <<>> /\ newText = <<>> /\ result = <<>> /\ reversed = <<>>

NoOps ==
  /\ ops = <<>> /\ contextLines = 0 /\ called = {}
  /\ formatted = <<>> /\ counts = [additions |-> 0, removals |-> 0]

Init == InitUpgrade /\ NoTexts /\ NoOps

----------------------------------------------------------------------------
(* init(options) *)

\* cpSync(templatePath, targetTemplatePath) and cpSync(statusBarSource, ...)
initCopy(templateName) ==
  [p \in { q \in DOMAIN pkgFs : q[1] \in {templateName, STATUS_BAR} } |-> pkgFs[p]]

\* init on an existing directory or with an unknown template exits with
\* status 1 before writing anything; only the successful run changes state
init(templateName) ==
  /\ pc = "idle"
  /\ ~projectExists
  /\ pkgDirExists(templateName)
  /\ projectExists' = TRUE
  /\ userFs' = initCopy(templateName)
  /\ userDirs' = {templateName} \cup
                 (IF pkgDirExists(STATUS_BAR) THEN {STATUS_BAR} ELSE {})
  /\ versionFile' = initialVersionInfo(userFs', userDirs', templateName)
  /\ exitCode' = 0
  /\ applied' = {}
  /\ UNCHANGED <<backups, pc, runVars, diffVars, envVars>>

----------------------------------------------------------------------------
(* The environment, between runs: user edits and releases of the tool *)

UserWrite(path, content) ==
  /\ pc = "idle" /\ projectExists /\ events < MaxEvents
  /\ userFs' = Put(userFs, path, content)
  /\ userDirs' = userDirs \cup {path[1]}
  /\ applied' = applied \ {path}
  /\ events' = events + 1
  /\ UNCHANGED <<projectExists, versionFile, backups, pkgFs, pkgVersion,
                 pc, runVars, diffVars, exitCode>>

UserDelete(path) ==
  /\ pc = "idle" /\ projectExists /\ events < MaxEvents
  /\ path \in DOMAIN userFs
  /\ userFs' = Remove(userFs, path)
  /\ applied' = applied \ {path}
  /\ events' = events + 1
  /\ UNCHANGED <<projectExists, userDirs, versionFile, backups, pkgFs,
                 pkgVersion, pc, runVars, diffVars, exitCode>>

\* the user removes a directory of templates/ with everything below it
UserRemoveDir(dir) ==
  /\ pc = "idle" /\ projectExists /\ events < MaxEvents
  /\ dir \in userDirs
  /\ userFs' = [p \in { q \in DOMAIN userFs : q[1] # dir } |-> userFs[p]]
  /\ userDirs' = userDirs \ {dir}
  /\ applied' = { p \in applied : p[1] # dir }
  /\ events' = events + 1
  /\ UNCHANGED <<projectExists, versionFile, backups, pkgFs, pkgVersion,
                 pc, runVars, diffVars, exitCode>>

\* the user deletes or garbles .storepix-version.json
UserBreakVersionFile(broken) ==
  /\ pc = "idle" /\ projectExists /\ events < MaxEvents
  /\ versionFile.state = "ok"
  /\ versionFile' = broken
  /\ events' = events + 1
  /\ UNCHANGED <<projectExists, userFs, userDirs, backups, pkgFs, pkgVersion,
                 pc, runVars, applied, diffVars, exitCode>>

\* another build of the tool is installed.  A release has a new pkg.version
\* and changes at most one shipped file; a build from a checkout of the
\* repository keeps the version of package.json, here one that dropped a file
Release(newPkgFs, newVersion) ==
  /\ pc = "idle" /\ events < MaxEvents
  /\ pkgVersion' = newVersion
  /\ pkgFs' = newPkgFs
  /\ events' = events + 1
  /\ UNCHANGED <<disk, pc, runVars, applied, diffVars, exitCode>>

ReleaseChoices ==
  {pkgFs} \cup { Put(pkgFs, p, c) : p \in PkgPaths, c \in PkgContents }
          \cup { Remove(pkgFs, p) : p \in PkgPaths }

CheckoutChoices == { Remove(pkgFs, p) : p \in DOMAIN pkgFs }

----------------------------------------------------------------------------
(* upgrade(options), step by step *)

Say(msg) == out' = Append(out, msg)

Exit(code) == pc' = "done" /\ exitCode' = code

templateOf == versionInfo.template

BeginUpgrade(d, f) ==
  /\ pc = "idle" /\ events < MaxEvents
  /\ pc' = "start"
  /\ dryRun' = d /\ force' = f
  /\ fs0' = userFs /\ dirs0' = userDirs /\ vf0' = versionFile /\ nb0' = backups.count
  /\ out' = <<>>
  /\ events' = events + 1
  /\ UNCHANGED <<disk, pkgFs, pkgVersion, versionInfo, mainChanges,
                 statusBarChanges, changes, k, answer, exitCode, applied,
                 diffVars>>

\* if (!existsSync(targetDir)) ... process.exit(1)
ProjectMissing ==
  /\ pc = "start" /\ ~projectExists
  /\ Say("Error: Directory not found") /\ Exit(1)
  /\ UNCHANGED <<disk, envVars, dryRun, force, versionInfo, mainChanges,
                 statusBarChanges, changes, k, answer, fs0, dirs0, vf0, nb0,
                 applied, diffVars>>

LoadBaseline ==
  /\ pc = "start" /\ projectExists
  /\ versionFile.state = "ok"
  /\ versionInfo' = versionFile
  /\ pc' = "compare"
  /\ UNCHANGED <<disk, envVars, dryRun, force, mainChanges, statusBarChanges,
                 changes, k, answer, out, exitCode, fs0, dirs0, vf0, nb0,
                 applied, diffVars>>

\* the detection if every directory of templates/ counted as a template
detectedTemplates_anyDirectory == userDirs

\* directories of templates/ other than status-bar that hold an index.html
detectedTemplates ==
  { t \in userDirs : t # STATUS_BAR /\ <<t, "index.html">> \in DOMAIN userFs }

DetectTemplate ==
  /\ pc = "start" /\ projectExists
  /\ versionFile.state # "ok"
  /\ \E t \in detectedTemplates :
       versionInfo' = [state |-> "ok", version |-> 0, template |-> t,
                       files |-> EmptyMap, hasStatusBarFiles |-> FALSE,
                       statusBarFiles |-> EmptyMap]
  /\ Say("Detected template")
  /\ pc' = "compare"
  /\ UNCHANGED <<disk, envVars, dryRun, force, mainChanges, statusBarChanges,
                 changes, k, answer, exitCode, fs0, dirs0, vf0, nb0,
                 applied, diffVars>>

DetectFails ==
  /\ pc = "start" /\ projectExists
  /\ versionFile.state # "ok"
  /\ detectedTemplates = {}
  /\ Say("Error: Could not detect project template") /\ Exit(1)
  /\ UNCHANGED <<disk, envVars, dryRun, force, versionInfo, mainChanges,
                 statusBarChanges, changes, k, answer, fs0, dirs0, vf0, nb0,
                 applied, diffVars>>

\* the version test with the force flag read the wrong way round
upToDate_forceInverted == versionInfo.version = pkgVersion /\ force

\* if (versionInfo.version === pkg.version && !force)
upToDate == versionInfo.version = pkgVersion /\ ~force

UpToDate ==
  /\ pc = "compare" /\ upToDate
  /\ Say("Already up to date!") /\ Exit(0)
  /\ UNCHANGED <<disk, envVars, dryRun, force, versionInfo, mainChanges,
                 statusBarChanges, changes, k, answer, fs0, dirs0, vf0, nb0,
                 applied, diffVars>>

\* the template check if it printed the error and returned
TemplateMissing_returns ==
  /\ pc = "compare" /\ ~upToDate
  /\ ~pkgDirExists(templateOf)
  /\ Say("Error: Template not found in package") /\ Exit(0)
  /\ UNCHANGED <<disk, envVars, dryRun, force, versionInfo, mainChanges,
                 statusBarChanges, changes, k, answer, fs0, dirs0, vf0, nb0,
                 applied, diffVars>>

\* if (!existsSync(packageTemplateDir)) ... process.exit(1)
TemplateMissing ==
  /\ pc = "compare" /\ ~upToDate
  /\ ~pkgDirExists(templateOf)
  /\ Say("Error: Template not found in package") /\ Exit(1)
  /\ UNCHANGED <<disk, envVars, dryRun, force, versionInfo, mainChanges,
                 statusBarChanges, changes, k, answer, fs0, dirs0, vf0, nb0,
                 applied, diffVars>>

\* the two calls of analyzeChanges and the merge, for every iteration order
computedChanges ==
  { [main |-> analyzeChanges(mo, templateOf, templateOf, versionInfo.files),
     sb |-> IF pkgDirExists(STATUS_BAR)
              THEN analyzeChanges(so, STATUS_BAR, STATUS_BAR,
                                  versionInfo.statusBarFiles)
              ELSE <<>>] :
      mo \in allFilesOrders(getAllFiles(userFs, templateOf),
                            getAllFiles(pkgFs, templateOf)),
      so \in allFilesOrders(getAllFiles(userFs, STATUS_BAR),
                            getAllFiles(pkgFs, STATUS_BAR)) }

ComputeChanges ==
  /\ pc = "compare" /\ ~upToDate
  /\ pkgDirExists(templateOf)
  /\ \E c \in computedChanges :
       /\ mainChanges' = c.main
       /\ statusBarChanges' = c.sb
       /\ changes' = c.main \o prefixed(c.sb)
  /\ pc' = "computed"
  /\ UNCHANGED <<disk, envVars, dryRun, force, versionInfo, k, answer, out,
                 exitCode, fs0, dirs0, vf0, nb0,
                 applied, diffVars>>

\* the no-change branch if it returned without refreshing the version file
NoChanges_noRefresh ==
  /\ pc = "computed" /\ Len(changes) = 0
  /\ Say("No template changes detected.")
  /\ Exit(0)
  /\ UNCHANGED <<disk, envVars, dryRun, force, versionInfo, mainChanges,
                 statusBarChanges, changes, k, answer, fs0, dirs0, vf0, nb0,
                 applied, diffVars>>

\* the no-change branch if it refreshed the version file in a dry run too
NoChanges_ignoresDryRun ==
  /\ pc = "computed" /\ Len(changes) = 0
  /\ versionFile' = updatedVersionInfo(userFs, userDirs, templateOf)
  /\ out' = out \o <<"No template changes detected.", "Version file updated.">>
  /\ Exit(0)
  /\ UNCHANGED <<projectExists, userFs, userDirs, backups, envVars, dryRun,
                 force, versionInfo, mainChanges, statusBarChanges, changes, k,
                 answer, fs0, dirs0, vf0, nb0,
                 applied, diffVars>>

\* if (changes.length === 0) { ... if (!dryRun) updateVersionFile(...) }
NoChanges ==
  /\ pc = "computed" /\ Len(changes) = 0
  /\ IF dryRun
       THEN /\ Say("No template changes detected.")
            /\ UNCHANGED versionFile
       ELSE /\ versionFile' = updatedVersionInfo(userFs, userDirs, templateOf)
            /\ out' = out \o <<"No template changes detected.",
                               "Version file updated.">>
  /\ Exit(0)
  /\ UNCHANGED <<projectExists, userFs, userDirs, backups, envVars, dryRun,
                 force, versionInfo, mainChanges, statusBarChanges, changes, k,
                 answer, fs0, dirs0, vf0, nb0,
                 applied, diffVars>>

\* the display step if the force flag skipped the confirmation prompt
Display_forceSkipsPrompt ==
  /\ pc = "computed" /\ Len(changes) > 0
  /\ IF dryRun
       THEN /\ out' = out \o <<"Changes detected:", "Dry run - no changes made.">>
            /\ Exit(0)
       ELSE /\ out' = out \o <<"Changes detected:">> \o
                      (IF hasConflictsOf(changes) /\ ~force
                         THEN <<"Warning: Some files have local modifications.">>
                         ELSE <<>>)
            /\ pc' = IF force THEN "backup" ELSE "confirm"
            /\ UNCHANGED exitCode
  /\ UNCHANGED <<disk, envVars, dryRun, force, versionInfo, mainChanges,
                 statusBarChanges, changes, k, answer, fs0, dirs0, vf0, nb0,
                 applied, diffVars>>

\* the display step if the warning did not depend on the force flag
Display_warnsWhenForced ==
  /\ pc = "computed" /\ Len(changes) > 0
  /\ IF dryRun
       THEN /\ out' = out \o <<"Changes detected:", "Dry run - no changes made.">>
            /\ Exit(0)
       ELSE /\ out' = out \o <<"Changes detected:">> \o
                      (IF hasConflictsOf(changes)
                         THEN <<"Warning: Some files have local modifications.">>
                         ELSE <<>>)
            /\ pc' = "confirm"
            /\ UNCHANGED exitCode
  /\ UNCHANGED <<disk, envVars, dryRun, force, versionInfo, mainChanges,
                 statusBarChanges, changes, k, answer, fs0, dirs0, vf0, nb0,
                 applied, diffVars>>

\* the change list (and with --show-diff the line diffs, which only print),
\* then either the dry-run return or the conflict warning
Display ==
  /\ pc = "computed" /\ Len(changes) > 0
  /\ IF dryRun
       THEN /\ out' = out \o <<"Changes detected:", "Dry run - no changes made.">>
            /\ Exit(0)
       ELSE /\ out' = out \o <<"Changes detected:">> \o
                      (IF hasConflictsOf(changes) /\ ~force
                         THEN <<"Warning: Some files have local modifications.">>
                         ELSE <<>>)
            /\ pc' = "confirm"
            /\ UNCHANGED exitCode
  /\ UNCHANGED <<disk, envVars, dryRun, force, versionInfo, mainChanges,
                 statusBarChanges, changes, k, answer, fs0, dirs0, vf0, nb0,
                 applied, diffVars>>

\* rl.question(message, answer => ...): the user types an answer
Prompt(a) ==
  /\ pc = "confirm"
  /\ answer' = a
  /\ Say("Proceed with upgrade? (y/n)")
  /\ pc' = "answered"
  /\ UNCHANGED <<disk, envVars, dryRun, force, versionInfo, mainChanges,
                 statusBarChanges, changes, k, exitCode, fs0, dirs0, vf0, nb0,
                 applied, diffVars>>

\* const proceed = await confirm(...); if (!proceed) { ... return; }
Confirm ==
  /\ pc = "answered"
  /\ answer' = <<>>
  /\ IF confirmed(answer)
       THEN /\ pc' = "backup"
            /\ UNCHANGED <<out, exitCode>>
       ELSE /\ Say("Upgrade cancelled.")
            /\ Exit(0)
  /\ UNCHANGED <<disk, envVars, dryRun, force, versionInfo, mainChanges,
                 statusBarChanges, changes, k, fs0, dirs0, vf0, nb0,
                 applied, diffVars>>

\* a directory .storepix-backup-<Date.now()> is added; older ones stay as they are
addBackup(files) == [count |-> backups.count + 1, newest |-> files]

\* the backup if only the template directory were copied
backupCopy_templateOnly(dirs) ==
  [p \in { q \in DOMAIN userFs : q[1] = templateOf } |-> userFs[p]]

\* what cpSync(userTemplateDir, backupDir/<template>) and
\* cpSync(userStatusBarDir, backupDir/status-bar) leave in the backup directory
backupCopy(dirs) ==
  [p \in { q \in DOMAIN userFs : q[1] \in dirs } |-> userFs[p]]

Backup ==
  /\ pc = "backup"
  /\ IF templateOf \in userDirs
       THEN /\ backups' = addBackup(
                 backupCopy({templateOf} \cup
                            (IF STATUS_BAR \in userDirs THEN {STATUS_BAR} ELSE {})))
            /\ Say("Backup created")
            /\ pc' = "apply" /\ k' = 1
            /\ UNCHANGED exitCode
       ELSE \* cpSync throws on a missing source, after mkdirSync(backupDir)
            /\ backups' = addBackup(EmptyMap)
            /\ Say("Uncaught error") /\ Exit(1)
            /\ UNCHANGED k
  /\ UNCHANGED <<projectExists, userFs, userDirs, versionFile, envVars, dryRun,
                 force, versionInfo, mainChanges, statusBarChanges, changes,
                 answer, fs0, dirs0, vf0, nb0,
                 applied, diffVars>>

\* a call of the backup step throws (disk full, no permission): mkdirSync,
\* the cpSync of the template or the cpSync of status-bar.  Nothing catches
\* it, so the process ends; what the earlier calls wrote stays
BackupStages == {"mkdirSync", "cpSync template", "cpSync status-bar"}

BackupFails(stage) ==
  /\ pc = "backup"
  /\ templateOf \in userDirs
  /\ stage = "cpSync status-bar" => STATUS_BAR \in userDirs
  /\ backups' = CASE stage = "mkdirSync" -> backups
                  [] stage = "cpSync template" -> addBackup(EmptyMap)
                  [] OTHER -> addBackup(backupCopy({templateOf}))
  /\ Say("Uncaught error") /\ Exit(1)
  /\ UNCHANGED <<projectExists, userFs, userDirs, versionFile, envVars, dryRun,
                 force, versionInfo, mainChanges, statusBarChanges, changes, k,
                 answer, fs0, dirs0, vf0, nb0, applied, diffVars>>

isStatusBar(change) == startsWithStatusBar(change.file)

\* change.file.replace('status-bar/', '')
relativeFile(change) ==
  IF isStatusBar(change) THEN Tail(change.file) ELSE change.file

userPathOf(change) ==
  IF isStatusBar(change) THEN change.file ELSE <<templateOf>> \o change.file

packagePathOf(change) ==
  IF isStatusBar(change) THEN <<STATUS_BAR>> \o relativeFile(change)
  ELSE <<templateOf>> \o change.file

\* the body of the loop over the changes, for changes[k]
ApplyChange ==
  /\ pc = "apply" /\ k <= Len(changes)
  /\ LET change == changes[k]
         userPath == userPathOf(change)
         packagePath == packagePathOf(change)
         packageThere == packagePath \in DOMAIN pkgFs
         saveOrig == change.type = "modified" /\ change.userModified = "true"
         readFails == saveOrig /\ userPath \notin DOMAIN userFs
         withOrig == IF saveOrig /\ ~readFails
                       THEN Put(userFs, Orig(userPath), Utf8RoundTrip(userFs[userPath]))
                       ELSE userFs
     IN IF change.type = "removed"
          THEN /\ Say("Kept")
               /\ k' = k + 1
               /\ UNCHANGED <<userFs, userDirs, pc, exitCode, applied>>
        ELSE IF readFails \/ ~packageThere
          THEN \* readFileSync or cpSync throws; what was written before stays
               /\ userFs' = withOrig
               /\ userDirs' = IF change.type = "added"
                                THEN userDirs \cup {userPath[1]} ELSE userDirs
               /\ Say("Uncaught error") /\ Exit(1)
               /\ UNCHANGED <<k, applied>>
        ELSE /\ userFs' = Put(withOrig, userPath, pkgFs[packagePath])
             /\ userDirs' = userDirs \cup {userPath[1]}
             /\ applied' = applied \cup {userPath}
             /\ Say(IF change.type = "added" THEN "Added" ELSE "Updated")
             /\ k' = k + 1
             /\ UNCHANGED <<pc, exitCode>>
  /\ UNCHANGED <<projectExists, versionFile, backups, envVars, dryRun, force,
                 versionInfo, mainChanges, statusBarChanges, changes, answer,
                 fs0, dirs0, vf0, nb0, diffVars>>

\* a call in the loop body throws for changes[k] although its source exists:
\* either the first one that touches the disk (mkdirSync, readFileSync,
\* writeFileSync of the sidecar or the only cpSync), or the cpSync that follows
\* a mkdirSync or a sidecar write that went through
ApplyStages == {"first call", "cpSync"}

\* the loop if it caught the exception, reported it and went on
ApplyFails_caught(stage) ==
  /\ pc = "apply" /\ k <= Len(changes)
  /\ changes[k].type # "removed"
  /\ packagePathOf(changes[k]) \in DOMAIN pkgFs
  /\ Say("Uncaught error")
  /\ k' = k + 1
  /\ UNCHANGED <<disk, envVars, dryRun, force, versionInfo, mainChanges,
                 statusBarChanges, changes, answer, pc, exitCode, fs0, dirs0,
                 vf0, nb0, applied, diffVars>>

ApplyFails(stage) ==
  /\ pc = "apply" /\ k <= Len(changes)
  /\ LET change == changes[k]
         userPath == userPathOf(change)
         saveOrig == change.type = "modified" /\ change.userModified = "true"
     IN /\ change.type # "removed"
        /\ packagePathOf(change) \in DOMAIN pkgFs
        /\ saveOrig => userPath \in DOMAIN userFs
        /\ IF stage = "first call"
             THEN UNCHANGED <<userFs, userDirs>>
             ELSE /\ change.type = "added" \/ saveOrig
                  /\ userFs' = IF saveOrig
                                 THEN Put(userFs, Orig(userPath),
                                          Utf8RoundTrip(userFs[userPath]))
                                 ELSE userFs
                  /\ userDirs' = userDirs \cup {userPath[1]}
  /\ Say("Uncaught error") /\ Exit(1)
  /\ UNCHANGED <<projectExists, versionFile, backups, envVars, dryRun, force,
                 versionInfo, mainChanges, statusBarChanges, changes, k, answer,
                 fs0, dirs0, vf0, nb0, applied, diffVars>>

\* updateVersionFile(targetDir, versionInfo.template) after the loop
PersistBaseline ==
  /\ pc = "apply" /\ k > Len(changes)
  /\ versionFile' = updatedVersionInfo(userFs, userDirs, templateOf)
  /\ Say("Upgrade complete!") /\ Exit(0)
  /\ UNCHANGED <<projectExists, userFs, userDirs, backups, envVars, dryRun,
                 force, versionInfo, mainChanges, statusBarChanges, changes, k,
                 answer, fs0, dirs0, vf0, nb0,
                 applied, diffVars>>

\* the writeFileSync of updateVersionFile throws, at either call: the version
\* file stays as it was and the process ends
PersistFails ==
  /\ \/ /\ pc = "apply" /\ k > Len(changes)
        /\ Say("Uncaught error")
     \/ /\ pc = "computed" /\ Len(changes) = 0 /\ ~dryRun
        /\ out' = out \o <<"No template changes detected.", "Uncaught error">>
  /\ Exit(1)
  /\ UNCHANGED <<disk, envVars, dryRun, force, versionInfo, mainChanges,
                 statusBarChanges, changes, k, answer, fs0, dirs0, vf0, nb0,
                 applied, diffVars>>

\* the process has ended; the next command starts from scratch
Finish ==
  /\ pc = "done"
  /\ pc' = "idle"
  /\ dryRun' = FALSE /\ force' = FALSE
  /\ versionInfo' = NoVersionFile
  /\ mainChanges' = <<>> /\ statusBarChanges' = <<>> /\ changes' = <<>>
  /\ k' = 0 /\ answer' = <<>> /\ out' = <<>>
  /\ fs0' = EmptyMap /\ dirs0' = {} /\ vf0' = NoVersionFile /\ nb0' = 0
  /\ exitCode' = 0
  /\ UNCHANGED <<disk, envVars, applied, diffVars>>

----------------------------------------------------------------------------
Next ==
  \/ \E t \in TemplateNames : init(t)
  \/ \E p \in UserPaths, c \in UserContents : UserWrite(p, c)
  \/ \E p \in UserPaths : UserDelete(p)
  \/ \E dir \in TemplateNames \cup {STATUS_BAR} : UserRemoveDir(dir)
  \/ \E b \in {NoVersionFile, CorruptVersionFile} : UserBreakVersionFile(b)
  \/ \E n \in ReleaseChoices : Release(n, pkgVersion + 1)
  \/ \E n \in CheckoutChoices : Release(n, pkgVersion)
  \/ \E d, f \in BOOLEAN : BeginUpgrade(d, f)
  \/ ProjectMissing
  \/ LoadBaseline
  \/ DetectTemplate
  \/ DetectFails
  \/ UpToDate
  \/ TemplateMissing
  \/ ComputeChanges
  \/ NoChanges
  \/ Display
  \/ \E a \in Answers : Prompt(a)
  \/ Confirm
  \/ Backup
  \/ \E stage \in BackupStages : BackupFails(stage)
  \/ ApplyChange
  \/ \E stage \in ApplyStages : ApplyFails(stage)
  \/ PersistBaseline
  \/ PersistFails
  \/ Finish

Spec == Init /\ [][Next]_vars

----------------------------------------------------------------------------
(* The line diff of utils/diff.js.  A text is a sequence of characters, a  *)
(* line a text without line feed.                                          *)

LF == "\n"
Chars == {"a", "b", LF}
Texts == UNION { [1..n -> Chars] : n \in 0..MaxTextLen }

\* a split that gives no line for an empty text or an empty last line
RECURSIVE split_noEmptyLastLine(_)
split_noEmptyLastLine(text) ==
  IF text = <<>> THEN <<>>
  ELSE IF \A i \in 1..Len(text) : text[i] # LF THEN <<text>>
  ELSE LET i == CHOOSE x \in 1..Len(text) :
                  text[x] = LF /\ \A y \in 1..(x - 1) : text[y] # LF
       IN <<SubSeq(text, 1, i - 1)>>
            \o split_noEmptyLastLine(SubSeq(text, i + 1, Len(text)))

\* text.split('\n')
RECURSIVE split(_)
split(text) ==
  IF \A i \in 1..Len(text) : text[i] # LF THEN <<text>>
  ELSE LET i == CHOOSE x \in 1..Len(text) :
                  text[x] = LF /\ \A y \in 1..(x - 1) : text[y] # LF
       IN <<SubSeq(text, 1, i - 1)>> \o split(SubSeq(text, i + 1, Len(text)))

Max(x, y) == IF x >= y THEN x ELSE y

\* the table dp of computeLCS(a, b); a[i - 1] of the code is a[i] here
dpTable(a, b) ==
  LET dp[i \in 0..Len(a), j \in 0..Len(b)] ==
        IF i = 0 \/ j = 0 THEN 0
        ELSE IF a[i] = b[j] THEN dp[i - 1, j - 1] + 1
        ELSE Max(dp[i - 1, j], dp[i, j - 1])
  IN dp

\* the walk back if a mismatch always went up, whatever the table says
RECURSIVE backtrack_alwaysUp(_, _, _, _, _)
backtrack_alwaysUp(a, b, dp, i, j) ==
  IF i > 0 /\ j > 0
    THEN IF a[i] = b[j]
           THEN backtrack_alwaysUp(a, b, dp, i - 1, j - 1) \o <<<<i - 1, j - 1>>>>
         ELSE backtrack_alwaysUp(a, b, dp, i - 1, j)
    ELSE <<>>

\* the walk back through the table if it went left where the code goes up
RECURSIVE backtrack_leftFirst(_, _, _, _, _)
backtrack_leftFirst(a, b, dp, i, j) ==
  IF i > 0 /\ j > 0
    THEN IF a[i] = b[j]
           THEN backtrack_leftFirst(a, b, dp, i - 1, j - 1) \o <<<<i - 1, j - 1>>>>
         ELSE IF dp[i - 1, j] < dp[i, j - 1]
           THEN backtrack_leftFirst(a, b, dp, i - 1, j)
         ELSE backtrack_leftFirst(a, b, dp, i, j - 1)
    ELSE <<>>

\* the while loop of computeLCS from (i, j): the pairs [i - 1, j - 1] it
\* unshifts, in the order they have in result
RECURSIVE backtrack(_, _, _, _, _)
backtrack(a, b, dp, i, j) ==
  IF i > 0 /\ j > 0
    THEN IF a[i] = b[j]
           THEN backtrack(a, b, dp, i - 1, j - 1) \o <<<<i - 1, j - 1>>>>
         ELSE IF dp[i - 1, j] > dp[i, j - 1]
           THEN backtrack(a, b, dp, i - 1, j)
         ELSE backtrack(a, b, dp, i, j - 1)
    ELSE <<>>

computeLCS(a, b) == backtrack(a, b, dpTable(a, b), Len(a), Len(b))

\* the op if its line number were the 0-based index
op_zeroBased(type, lines, index) ==
  [type |-> type, line |-> index, content |-> lines[index + 1]]

\* { type, line: index + 1, content: lines[index] } for a 0-based index
op(type, lines, index) ==
  [type |-> type, line |-> index + 1, content |-> lines[index + 1]]

\* the op of a common line if its line number were the 0-based index
sameOp_zeroBased(lines, index) ==
  [type |-> "same", line |-> index, content |-> lines[index + 1]]

sameOp(lines, index) == op("same", lines, index)

\* while (index < to) { result.push({ type, ... }); index++; }
pushWhile(type, lines, index, to) ==
  [n \in 1..Max(to - index, 0) |-> op(type, lines, index + n - 1)]

\* the body of diff if it returned after the last pair of lcs
RECURSIVE diffFrom_noRemainder(_, _, _, _, _, _)
diffFrom_noRemainder(oldLines, newLines, lcs, p, oldIndex, newIndex) ==
  IF p <= Len(lcs)
    THEN LET oldIdx == lcs[p][1]
             newIdx == lcs[p][2]
             oldAt == Max(oldIndex, oldIdx)
             newAt == Max(newIndex, newIdx)
         IN pushWhile("remove", oldLines, oldIndex, oldIdx)
              \o pushWhile("add", newLines, newIndex, newIdx)
              \o <<sameOp(oldLines, oldAt)>>
              \o diffFrom_noRemainder(oldLines, newLines, lcs, p + 1,
                                      oldAt + 1, newAt + 1)
    ELSE <<>>

\* the body of diff from the p-th pair of lcs on
RECURSIVE diffFrom(_, _, _, _, _, _)
diffFrom(oldLines, newLines, lcs, p, oldIndex, newIndex) ==
  IF p <= Len(lcs)
    THEN LET oldIdx == lcs[p][1]
             newIdx == lcs[p][2]
             oldAt == Max(oldIndex, oldIdx)
             newAt == Max(newIndex, newIdx)
         IN pushWhile("remove", oldLines, oldIndex, oldIdx)
              \o pushWhile("add", newLines, newIndex, newIdx)
              \o <<sameOp(oldLines, oldAt)>>
              \o diffFrom(oldLines, newLines, lcs, p + 1, oldAt + 1, newAt + 1)
    ELSE pushWhile("remove", oldLines, oldIndex, Len(oldLines))
           \o pushWhile("add", newLines, newIndex, Len(newLines))

diff(old, new) ==
  LET oldLines == split(old)
      newLines == split(new)
  IN diffFrom(oldLines, newLines, computeLCS(oldLines, newLines), 1, 0, 0)

upgradeVars == <<disk, envVars, pc, runVars, exitCode, applied>>

\* diff is given two texts
InitDiff ==
  /\ InitUpgrade /\ NoOps
  /\ oldText \in Texts /\ newText \in Texts
  /\ result = <<>> /\ reversed = <<>>

\* const result = diff(oldText, newText); a result always has an op, so the
\* empty sequence stands for "not called yet"
CallDiff ==
  /\ result = <<>>
  /\ result' = diff(oldText, newText)
  /\ UNCHANGED <<upgradeVars, opsVars, oldText, newText, reversed>>

\* diff(newText, oldText), the two texts the other way round
CallDiffReversed ==
  /\ reversed = <<>>
  /\ reversed' = diff(newText, oldText)
  /\ UNCHANGED <<upgradeVars, opsVars, oldText, newText, result>>

NextDiff == CallDiff \/ CallDiffReversed

SpecDiff == InitDiff /\ [][NextDiff]_vars

----------------------------------------------------------------------------
(* formatDiff and countChanges of utils/template-helper.js, given any      *)
(* diffResult                                                              *)

OpTypes == {"same", "add", "remove"}

\* the n-th op of a hand-written diffResult: its content is n times 'a'
opAt(type, n) == [type |-> type, line |-> n, content |-> [x \in 1..n |-> "a"]]

OpLists ==
  { [n \in 1..Len(types) |-> opAt(types[n], n)] :
      types \in UNION { [1..len -> OpTypes] : len \in 0..MaxOps } }

\* the escape sequences of the colours
CYAN == "\\x1b[36m"
GREEN == "\\x1b[32m"
RED == "\\x1b[31m"
RESET == "\\x1b[0m"

separatorLine == <<CYAN, ".", ".", ".", RESET>>
contextLine(item) == <<" ", " ">> \o item.content
changeLine(item) ==
  IF item.type = "add" THEN <<GREEN, "+", " ">> \o item.content \o <<RESET>>
  ELSE <<RED, "-", " ">> \o item.content \o <<RESET>>

\* lines.join('\n')
RECURSIVE join(_)
join(lines) ==
  IF Len(lines) = 0 THEN <<>>
  ELSE IF Len(lines) = 1 THEN lines[1]
  ELSE lines[1] \o <<LF>> \o join(Tail(lines))

\* for (let j = from; j < i; j++) if (j >= 0 && diffResult[j].type === 'same')
\* output.push(...): the lines pushed; diffResult[j] of the code is
\* diffResult[j + 1] here
RECURSIVE contextBefore(_, _, _)
contextBefore(diffResult, j, i) ==
  IF j < i
    THEN (IF j >= 0 /\ diffResult[j + 1].type = "same"
            THEN <<contextLine(diffResult[j + 1])>> ELSE <<>>)
         \o contextBefore(diffResult, j + 1, i)
    ELSE <<>>

\* the look-ahead loop if it printed every unchanged line up to the next change
RECURSIVE contextAfter_toNextChange(_, _, _)
contextAfter_toNextChange(diffResult, j, n) ==
  IF j < Len(diffResult) /\ diffResult[j + 1].type = "same"
    THEN 1 + contextAfter_toNextChange(diffResult, j + 1, n)
    ELSE 0

\* how many ops the look-ahead loop prints from j on, with room for n more
RECURSIVE contextAfter(_, _, _)
contextAfter(diffResult, j, n) ==
  IF j < Len(diffResult) /\ n > 0 /\ diffResult[j + 1].type = "same"
    THEN 1 + contextAfter(diffResult, j + 1, n - 1)
    ELSE 0

\* the loop of formatDiff from index i on: the final output array
RECURSIVE formatFrom(_, _, _, _, _, _)
formatFrom(diffResult, c, i, output, lastPrintedIndex, inHunk) ==
  IF i < Len(diffResult)
    THEN LET item == diffResult[i + 1]
         IN IF item.type # "same"
              THEN LET sep == IF lastPrintedIndex < i - c - 1
                                   /\ Len(output) > 0 /\ inHunk
                                THEN <<separatorLine>> ELSE <<>>
                       before == contextBefore(diffResult,
                                   Max(lastPrintedIndex + 1, i - c), i)
                       after == contextAfter(diffResult, i + 1, c)
                   IN formatFrom(diffResult, c, i + 1,
                        output \o sep \o before \o <<changeLine(item)>>
                          \o [n \in 1..after |-> contextLine(diffResult[i + 1 + n])],
                        i + after, TRUE)
              ELSE formatFrom(diffResult, c, i + 1, output,
                              lastPrintedIndex, inHunk)
    ELSE output

formatDiff(diffResult, c) ==
  join(formatFrom(diffResult, c, 0, <<>>, -c - 1, FALSE))

\* countChanges if everything that is not an addition counted as a removal
RECURSIVE countChanges_elseRemoval(_)
countChanges_elseRemoval(diffResult) ==
  IF diffResult = <<>> THEN [additions |-> 0, removals |-> 0]
  ELSE LET rest == countChanges_elseRemoval(Tail(diffResult))
           item == Head(diffResult)
       IN [additions |-> rest.additions + (IF item.type = "add" THEN 1 ELSE 0),
           removals |-> rest.removals + (IF item.type = "add" THEN 0 ELSE 1)]

RECURSIVE countChanges(_)
countChanges(diffResult) ==
  IF diffResult = <<>> THEN [additions |-> 0, removals |-> 0]
  ELSE LET rest == countChanges(Tail(diffResult))
           item == Head(diffResult)
       IN [additions |-> rest.additions + (IF item.type = "add" THEN 1 ELSE 0),
           removals |-> rest.removals + (IF item.type = "remove" THEN 1 ELSE 0)]

\* the two functions are given a diffResult
InitOps ==
  /\ InitUpgrade /\ NoTexts
  /\ ops \in OpLists /\ contextLines \in 0..MaxContext
  /\ called = {} /\ formatted = <<>>
  /\ counts = [additions |-> 0, removals |-> 0]

CallFormatDiff ==
  /\ "formatDiff" \notin called
  /\ formatted' = formatDiff(ops, contextLines)
  /\ called' = called \cup {"formatDiff"}
  /\ UNCHANGED <<upgradeVars, textVars, ops, contextLines, counts>>

CallCountChanges ==
  /\ "countChanges" \notin called
  /\ counts' = countChanges(ops)
  /\ called' = called \cup {"countChanges"}
  /\ UNCHANGED <<upgradeVars, textVars, ops, contextLines, formatted>>

NextOps == CallFormatDiff \/ CallCountChanges

SpecOps == InitOps /\ [][NextOps]_vars

----------------------------------------------------------------------------
(* Vocabulary of the properties *)

Range(s) == { s[i] : i \in 1..Len(s) }

inRun == pc # "idle"

completed == pc = "done" /\ "Upgrade complete!" \in Range(out)

backupDone == "Backup created" \in Range(out)

\* an exception ended the run
crashed == "Uncaught error" \in Range(out)

\* every spelling of y and yes
AcceptedAnswers ==
  { <<"y">>, <<"Y">> } \cup
  { <<a, b, c>> : a \in {"y", "Y"}, b \in {"e", "E"}, c \in {"s", "S"} }

\* the records of one call of analyzeChanges about one file
recordsOf(cs, file) == { i \in 1..Len(cs) : cs[i].file = file }

\* the user's and the shipped snapshot of one directory
userSnapshot(dir) == getFileHashes(userFs, dir)
upstreamSnapshot(dir) == getFileHashes(pkgFs, dir)

----------------------------------------------------------------------------
(* C1: reconciliation gives every path of the union of the user's and the  *)
(* upstream files exactly one outcome: upstream only -> one 'added'        *)
(* record, user only -> one 'removed' record, both with different          *)
(* fingerprints -> one 'modified' record, both with equal fingerprints ->  *)
(* no record; no record is about a path outside the union.                 *)

classifiedOnce(cs, dir) ==
  LET user == userSnapshot(dir)
      upstream == upstreamSnapshot(dir)
      union == DOMAIN user \cup DOMAIN upstream
      expected(f) ==
        IF f \notin DOMAIN user THEN "added"
        ELSE IF f \notin DOMAIN upstream THEN "removed"
        ELSE IF user[f] # upstream[f] THEN "modified" ELSE "none"
  IN /\ \A i \in 1..Len(cs) : cs[i].file \in union
     /\ \A f \in union :
          IF expected(f) = "none" THEN recordsOf(cs, f) = {}
          ELSE /\ Cardinality(recordsOf(cs, f)) = 1
               /\ \A i \in recordsOf(cs, f) : cs[i].type = expected(f)

C1_ExactlyOneOutcome ==
  pc = "computed" =>
    /\ classifiedOnce(mainChanges, templateOf)
    /\ pkgDirExists(STATUS_BAR) => classifiedOnce(statusBarChanges, STATUS_BAR)

\* a reconciliation with an added, a removed and a modified file in the
\* template and an unchanged file in status-bar
C1_Witness ==
  /\ pc = "computed"
  /\ \A t \in {"added", "removed", "modified"} :
       \E i \in 1..Len(mainChanges) : mainChanges[i].type = t
  /\ statusBarChanges = <<>>
  /\ DOMAIN userSnapshot(STATUS_BAR) \cap DOMAIN upstreamSnapshot(STATUS_BAR) # {}

----------------------------------------------------------------------------
(* C2: a 'modified' record has userModified true iff the baseline has a    *)
(* fingerprint for the path and the user's fingerprint differs from it,    *)
(* whatever the upstream fingerprint; 'added' and 'removed' records never  *)
(* have userModified true.                                                 *)

userModifiedRight(cs, dir, baseline) ==
  \A i \in 1..Len(cs) :
    IF cs[i].type = "modified"
      THEN (cs[i].userModified = "true") <=>
             /\ cs[i].file \in DOMAIN baseline
             /\ userSnapshot(dir)[cs[i].file] # baseline[cs[i].file]
      ELSE cs[i].userModified # "true"

C2_UserModifiedIffBaselineDiffers ==
  pc = "computed" =>
    /\ userModifiedRight(mainChanges, templateOf, versionInfo.files)
    /\ userModifiedRight(statusBarChanges, STATUS_BAR, versionInfo.statusBarFiles)

\* baseline H1, user H2, upstream H3, all different: userModified is true
C2_Witness ==
  /\ pc = "computed"
  /\ \E i \in 1..Len(mainChanges) :
       LET f == mainChanges[i].file
       IN /\ mainChanges[i].type = "modified"
          /\ mainChanges[i].userModified = "true"
          /\ f \in DOMAIN versionInfo.files
          /\ versionInfo.files[f] # userSnapshot(templateOf)[f]
          /\ versionInfo.files[f] # upstreamSnapshot(templateOf)[f]
          /\ userSnapshot(templateOf)[f] # upstreamSnapshot(templateOf)[f]

----------------------------------------------------------------------------
(* More vocabulary *)

\* nothing below the project directory differs from the run's start
untouched ==
  /\ userFs = fs0
  /\ userDirs = dirs0
  /\ versionFile = vf0
  /\ backups.count = nb0

\* every record of the run with the path it was computed for
recordsWithPath ==
  { [path |-> <<templateOf>> \o mainChanges[i].file, rec |-> mainChanges[i]] :
      i \in 1..Len(mainChanges) }
  \cup
  { [path |-> <<STATUS_BAR>> \o statusBarChanges[i].file,
     rec |-> statusBarChanges[i]] : i \in 1..Len(statusBarChanges) }

conflict(rec) == rec.type = "modified" /\ rec.userModified = "true"

----------------------------------------------------------------------------
(* C3: when a run completes, <path>.orig holds what the user's file at     *)
(* <path> held when the run started and <path> holds the upstream content, *)
(* exactly for the 'modified' records with userModified true; for every    *)
(* other record no <path>.orig was written.                                *)

C3_SidecarHoldsUsersContent ==
  completed =>
    \A r \in recordsWithPath :
      IF conflict(r.rec)
        THEN /\ Orig(r.path) \in DOMAIN userFs
             /\ userFs[Orig(r.path)] = fs0[r.path]
             /\ userFs[r.path] = pkgFs[r.path]
        ELSE Orig(r.path) \in DOMAIN userFs =>
               /\ Orig(r.path) \in DOMAIN fs0
               /\ userFs[Orig(r.path)] = fs0[Orig(r.path)]

----------------------------------------------------------------------------
(* C4: a file with a 'removed' record keeps, through the whole run, the    *)
(* content it had when the run started, whatever else is applied; and no   *)
(* run ever deletes a file of the user's template or status-bar directory. *)

C4_RemovedFilesUntouched ==
  inRun =>
    /\ DOMAIN fs0 \subseteq DOMAIN userFs
    /\ \A r \in recordsWithPath :
         r.rec.type = "removed" =>
           r.path \in DOMAIN userFs /\ userFs[r.path] = fs0[r.path]

----------------------------------------------------------------------------
(* C5: until Backup has completed the run has written no file of the user; *)
(* once it has, the new backup directory holds every file the template and *)
(* status-bar directories had at the start of the run, same path and same  *)
(* content, and keeps holding them through Apply.                          *)

C5_BackupBeforeAnyWrite ==
  inRun =>
    IF backupDone
      THEN /\ backups.count = nb0 + 1
           /\ \A p \in DOMAIN fs0 :
                p[1] \in {templateOf, STATUS_BAR} =>
                  p \in DOMAIN backups.newest /\ backups.newest[p] = fs0[p]
      ELSE userFs = fs0

\* Apply has finished a change list of 'added' records only
C5_Witness ==
  /\ pc = "apply" /\ k > Len(changes) /\ Len(changes) >= 1
  /\ \A i \in 1..Len(changes) : changes[i].type = "added"
  /\ userFs # fs0
  /\ backupDone
  /\ STATUS_BAR \in dirs0

----------------------------------------------------------------------------
(* C6: a dry run writes nothing (no template file, no sidecar, no backup,  *)
(* no version file) on any path through the command, and it never reaches  *)
(* the confirmation prompt.                                                *)

C6_DryRunTouchesNothing ==
  (inRun /\ dryRun) =>
    /\ untouched
    /\ pc \in {"start", "compare", "computed", "done"}

\* a dry run that found changes, one of them a conflict, and has ended
C6_Witness ==
  /\ pc = "done" /\ dryRun
  /\ hasConflictsOf(changes)
  /\ "Dry run - no changes made." \in Range(out)

----------------------------------------------------------------------------
(* C7: when the prompt is answered with anything but y or yes (in any      *)
(* case), the run ends there and nothing on disk has changed.              *)

C7_DeclineChangesNothing ==
  [][(pc = "answered" /\ answer \notin AcceptedAnswers)
       => (pc' = "done" /\ untouched')]_vars

\* a run with changes was declined and has ended
C7_Witness ==
  /\ pc = "done"
  /\ "Upgrade cancelled." \in Range(out)
  /\ Len(changes) > 0
  /\ untouched

----------------------------------------------------------------------------
(* C8 as stated: with the force flag a run that found changes goes to      *)
(* Backup without passing through the confirmation prompt.                 *)

C8_ForceSkipsPrompt ==
  (inRun /\ force) => pc \notin {"confirm", "answered"}

(* C8 as amended: the force flag bypasses the up-to-date short-circuit     *)
(* only; a forced run that is not a dry run and found changes still goes   *)
(* from Display to the confirmation prompt, and reaches Backup only from   *)
(* an answer of y or yes.                                                  *)

C8_ForceStillPrompts ==
  [][force =>
       /\ (pc = "compare") => "Already up to date!" \notin Range(out')
       /\ (pc = "computed" /\ ~dryRun /\ Len(changes) > 0) => pc' = "confirm"
       /\ (pc' = "backup") => (pc = "answered" /\ answer \in AcceptedAnswers)
    ]_vars

\* a forced run on an up-to-date project got past the prompt and applies
C8_Witness ==
  /\ pc = "apply" /\ force
  /\ vf0.state = "ok" /\ vf0.version = pkgVersion

----------------------------------------------------------------------------
(* C9: when the recorded version equals the tool's version and the force   *)
(* flag is absent, the run ends as already up to date: no change record is *)
(* computed and nothing is written, whatever the user's files look like.   *)

C9_UpToDateShortCircuits ==
  (inRun /\ pc # "start" /\ vf0.state = "ok" /\ vf0.version = pkgVersion
     /\ ~force) =>
    /\ pc \in {"compare", "done"}
    /\ mainChanges = <<>> /\ statusBarChanges = <<>> /\ changes = <<>>
    /\ untouched
    /\ pc = "done" => (out = <<"Already up to date!">> /\ exitCode = 0)

\* the short-circuit on a project whose files differ from baseline and upstream
C9_Witness ==
  /\ pc = "done" /\ out = <<"Already up to date!">>
  /\ userSnapshot(templateOf) # vf0.files
  /\ userSnapshot(templateOf) # upstreamSnapshot(templateOf)

----------------------------------------------------------------------------
(* C10: the version file is not written while changes are applied; when    *)
(* the run completes it holds the tool's version, the same template name   *)
(* and the snapshots of the user's template and status-bar directories as  *)
(* they are after Apply.                                                   *)

C10_BaselineRewrittenAfterApply ==
  /\ pc = "apply" => versionFile = vf0
  /\ completed =>
       /\ versionFile.state = "ok"
       /\ versionFile.version = pkgVersion
       /\ versionFile.template = versionInfo.template
       /\ vf0.state = "ok" => versionFile.template = vf0.template
       /\ versionFile.files = userSnapshot(versionFile.template)
       /\ STATUS_BAR \in userDirs =>
            /\ versionFile.hasStatusBarFiles
            /\ versionFile.statusBarFiles = userSnapshot(STATUS_BAR)

\* a completed run that changed files and fingerprints
C10_Witness ==
  /\ completed
  /\ userFs # fs0
  /\ STATUS_BAR \in userDirs
  /\ vf0.state = "ok" /\ versionFile.files # vf0.files

----------------------------------------------------------------------------
(* C11: over any sequence of runs (completed, declined, dry runs, runs     *)
(* that an I/O error ended) and releases, a file that the apply loop       *)
(* overwrote with the upstream content and that the user has not edited    *)
(* since is never reported as 'modified' with userModified true by a later *)
(* run.                                                                    *)

C11_AppliedFileNeverFlagged ==
  pc = "computed" =>
    \A r \in recordsWithPath : conflict(r.rec) => r.path \notin applied

----------------------------------------------------------------------------
(* C12: when a completed run has ended Apply, every path that had an       *)
(* 'added' or 'modified' record exists in the user's tree with the         *)
(* fingerprint of the upstream file at that path, so reconciling again     *)
(* against the same upstream yields no 'added' and no 'modified' record,   *)
(* in whatever order the records were applied.                             *)

writes(rec) == rec.type \in {"added", "modified"}

C12_AppliedPathsMatchUpstream ==
  completed =>
    /\ \A r \in recordsWithPath :
         writes(r.rec) =>
           /\ r.path \in DOMAIN userFs
           /\ hashFile(userFs[r.path]) = hashFile(pkgFs[r.path])
    /\ \A c \in computedChanges :
         /\ \A i \in 1..Len(c.main) : ~writes(c.main[i])
         /\ \A i \in 1..Len(c.sb) : ~writes(c.sb[i])

----------------------------------------------------------------------------
(* C13: a run that is not a dry run and whose reconciliation yields no     *)
(* change record still rewrites the version file (the tool's version, the  *)
(* files re-snapshotted), creates no backup, touches no template file and  *)
(* never shows the confirmation prompt.                                    *)

C13_NoChangesStillRefreshesBaseline ==
  /\ pc \in {"confirm", "answered", "backup", "apply"} => Len(changes) > 0
  /\ (pc = "done" /\ ~dryRun /\ ~crashed
        /\ "No template changes detected." \in Range(out)) =>
       /\ versionFile.state = "ok"
       /\ versionFile.version = pkgVersion
       /\ versionFile.template = templateOf
       /\ versionFile.files = userSnapshot(templateOf)
       /\ STATUS_BAR \in userDirs =>
            versionFile.statusBarFiles = userSnapshot(STATUS_BAR)
       /\ backups.count = nb0
       /\ userFs = fs0 /\ userDirs = dirs0
       /\ "Proceed with upgrade? (y/n)" \notin Range(out)
       /\ exitCode = 0

\* a release that changed no file: the run found nothing to do and moved the
\* recorded version to the new one
C13_Witness ==
  /\ pc = "done" /\ ~dryRun /\ ~force
  /\ "Version file updated." \in Range(out)
  /\ changes = <<>>
  /\ vf0.state = "ok" /\ vf0.version # pkgVersion
  /\ versionFile.version = pkgVersion
  /\ userFs = fs0

----------------------------------------------------------------------------
(* C14: right after init the version file has a files map that is not      *)
(* empty and a statusBarFiles map, equal to the snapshots of the project's *)
(* template and status-bar directories, which equal the upstream           *)
(* snapshots; an upgrade run on such a project, not edited since, yields   *)
(* no change record or ends as already up to date.                         *)

\* at the run's start the project was as init leaves it
freshAtStart ==
  /\ vf0.state = "ok"
  /\ vf0.version = pkgVersion
  /\ vf0.files = getFileHashes(fs0, vf0.template)
  /\ vf0.files = upstreamSnapshot(vf0.template)
  /\ vf0.statusBarFiles = getFileHashes(fs0, STATUS_BAR)
  /\ vf0.statusBarFiles = upstreamSnapshot(STATUS_BAR)

C14_InitBaselineMatchesUpstream ==
  /\ [][(~projectExists /\ projectExists') =>
          /\ versionFile'.state = "ok"
          /\ versionFile'.version = pkgVersion'
          /\ versionFile'.files # EmptyMap
          /\ versionFile'.files = getFileHashes(userFs', versionFile'.template)
          /\ versionFile'.files = getFileHashes(pkgFs', versionFile'.template)
          /\ versionFile'.statusBarFiles = getFileHashes(userFs', STATUS_BAR)
          /\ versionFile'.statusBarFiles = getFileHashes(pkgFs', STATUS_BAR)
       ]_vars
  /\ []((inRun /\ freshAtStart) =>
          /\ changes = <<>>
          /\ pc \in {"start", "compare", "computed", "done"}
          /\ userFs = fs0 /\ backups.count = nb0
          /\ (pc = "done" /\ force) => out[1] = "No template changes detected."
          /\ (pc = "done" /\ ~force) => out = <<"Already up to date!">>)

\* the first command after init is a forced upgrade: it finds nothing to do
C14_Witness ==
  /\ pc = "done" /\ force /\ events = 1
  /\ freshAtStart
  /\ vf0.files # EmptyMap /\ vf0.statusBarFiles # EmptyMap
  /\ "No template changes detected." \in Range(out)

----------------------------------------------------------------------------
(* C15: when the version file is absent or unparsable and a template is    *)
(* detected, the run works from a baseline with empty fingerprint maps, so *)
(* no 'modified' record has userModified true: no conflict is reported, no *)
(* .orig sidecar is written, and when the run completes every file that    *)
(* differed holds the upstream content, its prior content being in the     *)
(* backup.                                                                 *)

detectedRun == inRun /\ vf0.state # "ok" /\ pc \notin {"start"} /\ versionInfo.state = "ok"

C15_NoBaselineNoConflict ==
  detectedRun =>
    /\ versionInfo.files = EmptyMap /\ versionInfo.statusBarFiles = EmptyMap
    /\ \A r \in recordsWithPath : ~conflict(r.rec)
    /\ "Warning: Some files have local modifications." \notin Range(out)
    /\ \A r \in recordsWithPath :
         Orig(r.path) \in DOMAIN userFs =>
           /\ Orig(r.path) \in DOMAIN fs0
           /\ userFs[Orig(r.path)] = fs0[Orig(r.path)]
    /\ completed =>
         \A r \in recordsWithPath :
           r.rec.type = "modified" =>
             /\ userFs[r.path] = pkgFs[r.path]
             /\ r.path \in DOMAIN backups.newest
             /\ backups.newest[r.path] = fs0[r.path]

----------------------------------------------------------------------------
(* C16 as stated: whenever the template the baseline names is not shipped, *)
(* the run ends in a fatal error with a non-zero exit status and without   *)
(* any write, whatever the recorded version and the force and dry-run      *)
(* flags are.                                                              *)

templateNotShipped ==
  inRun /\ pc # "start" /\ versionInfo.state = "ok" /\ ~pkgDirExists(templateOf)

C16_MissingTemplateAlwaysFatal ==
  templateNotShipped =>
    /\ pc \in {"compare", "done"}
    /\ untouched
    /\ pc = "done" =>
         /\ exitCode # 0
         /\ "Error: Template not found in package" \in Range(out)

(* C16 as amended: whenever the template the baseline names is not         *)
(* shipped, the run writes nothing and computes no change record; it ends  *)
(* as already up to date with exit status 0 when the recorded version      *)
(* equals the tool's version and the force flag is absent, and in a fatal  *)
(* error with a non-zero exit status otherwise, with or without dry-run.   *)

C16_MissingTemplateFatalUnlessUpToDate ==
  templateNotShipped =>
    /\ pc \in {"compare", "done"}
    /\ untouched
    /\ changes = <<>>
    /\ pc = "done" =>
         IF versionInfo.version = pkgVersion /\ ~force
           THEN out = <<"Already up to date!">> /\ exitCode = 0
           ELSE /\ exitCode # 0
                /\ out[Len(out)] = "Error: Template not found in package"

\* a forced dry run on a project whose recorded version is the tool's version
\* and whose template the installed build no longer ships
C16_Witness ==
  /\ templateNotShipped
  /\ pc = "done" /\ force /\ dryRun
  /\ vf0.state = "ok" /\ vf0.version = pkgVersion
  /\ exitCode = 1

----------------------------------------------------------------------------
(* C17: when the project directory does not exist, or the version file is  *)
(* absent or unparsable while no directory of templates/ other than        *)
(* status-bar holds an index.html, the run ends in a fatal error with a    *)
(* non-zero exit status before any reconciliation, and writes nothing.     *)

noTemplateAtStart ==
  { t \in dirs0 : t # STATUS_BAR /\ <<t, "index.html">> \in DOMAIN fs0 } = {}

C17_NoProjectOrNoTemplateIsFatal ==
  (inRun /\ pc # "start"
     /\ (~projectExists \/ (vf0.state # "ok" /\ noTemplateAtStart))) =>
    /\ pc = "done"
    /\ exitCode # 0
    /\ out[Len(out)] = IF projectExists
                         THEN "Error: Could not detect project template"
                         ELSE "Error: Directory not found"
    /\ versionInfo.state # "ok"
    /\ mainChanges = <<>> /\ statusBarChanges = <<>> /\ changes = <<>>
    /\ untouched

\* the version file is unparsable and the template directory has lost its
\* index.html, while status-bar still has its files
C17_Witness ==
  /\ pc = "done" /\ exitCode = 1
  /\ projectExists /\ vf0.state = "corrupt"
  /\ "default" \in dirs0
  /\ \E p \in DOMAIN fs0 : p[1] = STATUS_BAR
  /\ "Error: Could not detect project template" \in Range(out)

----------------------------------------------------------------------------
(* C18: a filesystem error during Backup or while the k-th record is       *)
(* applied ends the run there: no later record is applied, every user file *)
(* that the loop had not yet written keeps the content it had when the run *)
(* started, and the version file is not rewritten; after an error during   *)
(* Backup every file of the template and status-bar directories is as it   *)
(* was.                                                                    *)

\* the paths the loop has written when it is at changes[n]: the targets of
\* the records before it, and the sidecars up to it
writtenUpTo(n) ==
  { userPathOf(changes[j]) :
      j \in { i \in 1..Len(changes) : i < n /\ writes(changes[i]) } }
  \cup
  { Orig(userPathOf(changes[j])) :
      j \in { i \in 1..Len(changes) : i <= n /\ conflict(changes[i]) } }

C18_ErrorAbortsWhereItHappens ==
  (pc = "done" /\ crashed) =>
    /\ exitCode # 0
    /\ "Upgrade complete!" \notin Range(out)
    /\ versionFile = vf0
    /\ ~backupDone => userFs = fs0
    /\ backupDone =>
         \A p \in (DOMAIN fs0 \cup DOMAIN userFs) \ writtenUpTo(k) :
           p \in DOMAIN fs0 /\ p \in DOMAIN userFs /\ userFs[p] = fs0[p]

\* the copy of the second record failed after the first record was applied;
\* the file of the second record is as the user left it
C18_Witness ==
  /\ pc = "done" /\ crashed /\ backupDone
  /\ k = 2 /\ Len(changes) >= 2
  /\ writes(changes[1]) /\ writes(changes[2])
  /\ userPathOf(changes[1]) # userPathOf(changes[2])
  /\ userFs[userPathOf(changes[1])] # fs0[userPathOf(changes[1])]
  /\ userFs[userPathOf(changes[2])] = fs0[userPathOf(changes[2])]
  /\ userFs[userPathOf(changes[2])] # pkgFs[packagePathOf(changes[2])]

----------------------------------------------------------------------------
(* Vocabulary of the properties of diff *)

\* the positions of the line feeds of a text, and its lines: the k-th line
\* is what stands between the (k-1)-th and the k-th line feed
feeds(text) == { i \in 1..Len(text) : text[i] = LF }

lineStart(text, n) ==
  IF n = 1 THEN 1
  ELSE 1 + CHOOSE i \in feeds(text) :
             Cardinality({ j \in feeds(text) : j < i }) = n - 2

lineEnd(text, n) ==
  IF n = Cardinality(feeds(text)) + 1 THEN Len(text)
  ELSE (CHOOSE i \in feeds(text) :
          Cardinality({ j \in feeds(text) : j < i }) = n - 1) - 1

linesOf(text) ==
  [n \in 1..(Cardinality(feeds(text)) + 1) |->
     SubSeq(text, lineStart(text, n), lineEnd(text, n))]

countOps(list, type) ==
  Cardinality({ i \in 1..Len(list) : list[i].type = type })

\* the subsequences of a sequence
pick(s, I) ==
  [n \in 1..Cardinality(I) |->
     s[CHOOSE i \in I : Cardinality({ j \in I : j < i }) = n - 1]]

subsequences(s) == { pick(s, I) : I \in SUBSET (1..Len(s)) }

\* the length of a longest common subsequence
lcsLength(a, b) ==
  LET common == subsequences(a) \cap subsequences(b)
  IN CHOOSE n \in 0..Len(a) :
       /\ \E c \in common : Len(c) = n
       /\ \A c \in common : Len(c) <= n

diffCalled == result # <<>>

----------------------------------------------------------------------------
(* C19: diff(T, T) has exactly one op per line of T, all of type 'same',   *)
(* in order: the k-th op has line number k and the content of line k.      *)

C19_IdenticalTextsAllSame ==
  (diffCalled /\ oldText = newText) =>
    /\ Len(result) = Len(linesOf(oldText))
    /\ \A n \in 1..Len(result) :
         result[n] = [type |-> "same", line |-> n,
                      content |-> linesOf(oldText)[n]]

\* a text of three lines, one of them empty, diffed with itself
C19_Witness ==
  /\ diffCalled /\ oldText = newText
  /\ Len(result) = 3
  /\ \E n \in 1..3 : result[n].content = <<>>
  /\ \E n \in 1..3 : result[n].content # <<>>

----------------------------------------------------------------------------
(* C20: with m old lines, n new lines and L the length of their longest    *)
(* common subsequence, diff(old, new) has L 'same' ops, m - L 'remove' ops *)
(* and n - L 'add' ops.                                                    *)

C20_OpCountsFollowLcs ==
  diffCalled =>
    LET m == Len(linesOf(oldText))
        n == Len(linesOf(newText))
        L == lcsLength(linesOf(oldText), linesOf(newText))
    IN /\ countOps(result, "same") = L
       /\ countOps(result, "remove") = m - L
       /\ countOps(result, "add") = n - L
       /\ Len(result) = m + n - L

\* two texts with a common line that is not their first, lines only the old
\* text has and lines only the new text has
C20_Witness ==
  /\ diffCalled
  /\ Len(linesOf(oldText)) # Len(linesOf(newText))
  /\ countOps(result, "same") >= 1
  /\ countOps(result, "remove") >= 1
  /\ countOps(result, "add") >= 1
  /\ result[1].type # "same"

----------------------------------------------------------------------------
(* More vocabulary of the properties of diff *)

\* the contents of the ops of some types, in output order
contentsOf(list, types) ==
  LET keep(o) == o.type \in types
      kept == SelectSeq(list, keep)
  IN [n \in 1..Len(kept) |-> kept[n].content]

\* the line numbers of the ops of some types, in output order
lineNumbersOf(list, types) ==
  LET keep(o) == o.type \in types
      kept == SelectSeq(list, keep)
  IN [n \in 1..Len(kept) |-> kept[n].line]

bothCalled == result # <<>> /\ reversed # <<>>

----------------------------------------------------------------------------
(* C21: diff(old, new) has as many 'add' ops as diff(new, old) has         *)
(* 'remove' ops, and as many 'remove' ops as diff(new, old) has 'add' ops, *)
(* also when the two directions align the texts differently.               *)

C21_CountsMirrorWhenReversed ==
  bothCalled =>
    /\ countOps(result, "add") = countOps(reversed, "remove")
    /\ countOps(result, "remove") = countOps(reversed, "add")

\* the two directions keep different lines as common
C21_Witness ==
  /\ bothCalled
  /\ contentsOf(result, {"same"}) # contentsOf(reversed, {"same"})
  /\ countOps(result, "add") >= 1 /\ countOps(result, "remove") >= 1

----------------------------------------------------------------------------
(* C22: every op of diff carries the 1-based number its line has in its    *)
(* own text, the old text for 'remove' and 'same', the new text for 'add'; *)
(* the line numbers of the 'remove' and 'same' ops in output order are     *)
(* 1..m, those of the 'add' ops are strictly increasing.                   *)

C22_LineNumbersArePositions ==
  diffCalled =>
    LET old == linesOf(oldText)
        new == linesOf(newText)
        oldSide == lineNumbersOf(result, {"remove", "same"})
        newSide == lineNumbersOf(result, {"add"})
    IN /\ \A i \in 1..Len(result) :
            LET source == IF result[i].type = "add" THEN new ELSE old
            IN /\ result[i].line \in 1..Len(source)
               /\ result[i].content = source[result[i].line]
       /\ oldSide = [n \in 1..Len(old) |-> n]
       /\ \A i, j \in 1..Len(newSide) : i < j => newSide[i] < newSide[j]

\* an added line that is not the first line of the new text, after a line
\* that was removed and a line that was kept
C22_Witness ==
  /\ diffCalled
  /\ \E i, j, n \in 1..Len(result) :
       /\ i < j /\ j < n
       /\ result[i].type = "remove"
       /\ result[j].type = "same"
       /\ result[n].type = "add" /\ result[n].line >= 2

----------------------------------------------------------------------------
(* C23: an empty text is one empty line, not zero lines: diffed against a  *)
(* new text of n lines none of which is empty it gives one 'remove' op     *)
(* with content '', n 'add' ops and no 'same' op; an old text of m lines   *)
(* none of which is empty diffed against the empty text gives m 'remove'   *)
(* ops and one 'add' op with content ''.                                   *)

noEmptyLine(text) == \A n \in 1..Len(linesOf(text)) : linesOf(text)[n] # <<>>

C23_EmptyTextIsOneEmptyLine ==
  diffCalled =>
    /\ (oldText = <<>> /\ noEmptyLine(newText)) =>
         /\ contentsOf(result, {"remove"}) = << <<>> >>
         /\ countOps(result, "add") = Len(linesOf(newText))
         /\ countOps(result, "same") = 0
    /\ (newText = <<>> /\ noEmptyLine(oldText)) =>
         /\ contentsOf(result, {"add"}) = << <<>> >>
         /\ countOps(result, "remove") = Len(linesOf(oldText))
         /\ countOps(result, "same") = 0

\* the empty text against a text of two lines
C23_Witness ==
  /\ diffCalled
  /\ oldText = <<>>
  /\ noEmptyLine(newText) /\ Len(linesOf(newText)) = 2
  /\ Len(result) = 3

----------------------------------------------------------------------------
(* C30: the contents of the 'same' and 'remove' ops of diff(old, new), in  *)
(* output order, are the lines of the old text in order, those of the      *)
(* 'same' and 'add' ops the lines of the new text; joined with line feeds  *)
(* they give back the two texts.                                           *)

C30_ProjectionsGiveBackTheTexts ==
  diffCalled =>
    /\ contentsOf(result, {"same", "remove"}) = linesOf(oldText)
    /\ contentsOf(result, {"same", "add"}) = linesOf(newText)
    /\ join(contentsOf(result, {"same", "remove"})) = oldText
    /\ join(contentsOf(result, {"same", "add"})) = newText

\* two different texts with a common line, where lines of both follow the
\* last common line
C30_Witness ==
  /\ diffCalled
  /\ countOps(result, "same") >= 1
  /\ Len(result) >= 4
  /\ result[Len(result)].type = "add"
  /\ result[Len(result) - 1].type = "remove"

----------------------------------------------------------------------------
(* C24: formatDiff(ops, c) prints every 'add' and 'remove' op once and in  *)
(* op order, prints a 'same' op exactly when it lies within c positions of *)
(* an 'add' or 'remove' op, and prints no op twice; it prints an ellipsis  *)
(* line exactly between two printed ops that have an omitted op between    *)
(* them. With no 'add' or 'remove' op it returns the empty string.         *)

formatDiffCalled == "formatDiff" \in called

\* the lines of the string formatDiff returned; no printed line is empty
printedLines == IF formatted = <<>> THEN <<>> ELSE linesOf(formatted)

isChange(i) == ops[i].type # "same"

distance(i, j) == IF i < j THEN j - i ELSE i - j

\* the positions of the ops the claim wants printed, in op order
wanted ==
  LET near(i) == \E j \in 1..Len(ops) :
                   isChange(j) /\ distance(i, j) <= contextLines
  IN SelectSeq([i \in 1..Len(ops) |-> i], near)

\* an omitted op lies between the k-th wanted op and the one before
afterGap(n) == n > 1 /\ wanted[n] > wanted[n - 1] + 1

\* where the k-th wanted op stands in the output
placeOf(n) == n + Cardinality({ x \in 1..n : afterGap(x) })

C24_FormatDiffPrintsHunks ==
  formatDiffCalled =>
    /\ Len(printedLines) =
         Len(wanted) + Cardinality({ x \in 1..Len(wanted) : afterGap(x) })
    /\ \A n \in 1..Len(wanted) :
         /\ printedLines[placeOf(n)] =
              (IF isChange(wanted[n]) THEN changeLine(ops[wanted[n]])
               ELSE contextLine(ops[wanted[n]]))
         /\ afterGap(n) => printedLines[placeOf(n) - 1] = separatorLine
    /\ (\A i \in 1..Len(ops) : ~isChange(i)) => formatted = <<>>

\* two hunks with context around them and an ellipsis between them
C24_Witness ==
  /\ formatDiffCalled
  /\ contextLines >= 1
  /\ \E n \in 2..Len(wanted) :
       /\ afterGap(n)
       /\ ~isChange(wanted[n]) /\ ~isChange(wanted[n - 1])
  /\ \E n \in 2..Len(wanted) : isChange(wanted[n]) /\ isChange(wanted[n - 1])

----------------------------------------------------------------------------
(* C25: countChanges(ops) returns as additions the number of 'add' ops and *)
(* as removals the number of 'remove' ops, whatever the number of 'same'   *)
(* ops, for the empty list too; the call leaves the list as it was.        *)

countChangesCalled == "countChanges" \in called

C25_CountChangesTallies ==
  /\ [](countChangesCalled =>
          counts = [additions |-> countOps(ops, "add"),
                    removals |-> countOps(ops, "remove")])
  /\ [][(~countChangesCalled /\ countChangesCalled') => ops' = ops]_vars

\* a list with ops of the three types and more additions than removals
C25_Witness ==
  /\ countChangesCalled
  /\ countOps(ops, "same") >= 1
  /\ countOps(ops, "remove") >= 1
  /\ countOps(ops, "add") > countOps(ops, "remove")
  /\ counts.additions > counts.removals

----------------------------------------------------------------------------
(* C26: Apply reads and writes, for every record of the merged list, in    *)
(* the directory the record was computed for: a record of the primary      *)
(* template, whatever its relative path, in the primary template directory *)
(* of the user and of the package, a record of status-bar in the shared    *)
(* status-bar directory.                                                   *)

\* the directory the k-th record of the merged list was computed for, and
\* its path relative to that directory
originOf(n) ==
  IF n <= Len(mainChanges)
    THEN [dir |-> templateOf, file |-> mainChanges[n].file]
    ELSE [dir |-> STATUS_BAR,
          file |-> statusBarChanges[n - Len(mainChanges)].file]

C26_AppliedInItsOwnDirectory ==
  (pc = "apply" /\ k <= Len(changes) /\ writes(changes[k])) =>
    /\ userPathOf(changes[k]) = <<originOf(k).dir>> \o originOf(k).file
    /\ packagePathOf(changes[k]) = <<originOf(k).dir>> \o originOf(k).file

----------------------------------------------------------------------------
(* C27 as stated: in every run that is not a dry run and whose change list *)
(* has a 'modified' record with userModified true, the conflict warning is *)
(* printed before the confirmation prompt, with or without the force flag. *)

conflictWarning == "Warning: Some files have local modifications."
promptLine == "Proceed with upgrade? (y/n)"

\* the run printed the change list and went on towards the prompt
displayed == inRun /\ ~dryRun /\ "Changes detected:" \in Range(out)

C27_ConflictAlwaysWarned ==
  (displayed /\ hasConflictsOf(changes)) => conflictWarning \in Range(out)

(* C27 as amended: the conflict warning is printed right after the change  *)
(* list and before the confirmation prompt exactly when the list has a     *)
(* conflict and the force flag is absent; with the force flag no warning   *)
(* is printed and the run goes to the prompt all the same. A conflict      *)
(* never ends the run with an error message: a run with a conflict that    *)
(* exits with a non-zero status was ended by an exception of the file      *)
(* system.                                                                 *)

C27_ConflictWarnedUnlessForced ==
  displayed =>
    /\ (hasConflictsOf(changes) /\ ~force) =>
         /\ out[1] = "Changes detected:" /\ out[2] = conflictWarning
         /\ \A n \in 1..Len(out) : out[n] = promptLine => n = 3
    /\ (force \/ ~hasConflictsOf(changes)) => conflictWarning \notin Range(out)
    /\ hasConflictsOf(changes) =>
         /\ pc = "done" => promptLine \in Range(out)
         /\ exitCode # 0 => crashed

\* a forced run with a conflict was prompted without a warning and applies
C27_Witness ==
  /\ displayed /\ force /\ hasConflictsOf(changes)
  /\ out = <<"Changes detected:", promptLine, "Backup created">>
  /\ pc = "apply"

----------------------------------------------------------------------------
(* C28: when the user's directory of the template the baseline names does  *)
(* not exist and the package ships that template, the comparison gives an  *)
(* 'added' record for every shipped file of the template, and a run that   *)
(* is not a dry run and was confirmed passes the backup step, creates      *)
(* every one of these files and writes the baseline.                       *)

\* the baseline names a template the package ships, and the user has no
\* directory of that template
templateDirMissingAtStart ==
  /\ inRun /\ vf0.state = "ok"
  /\ vf0.template \notin dirs0
  /\ pkgDirExists(vf0.template)

\* the prompt was answered with y or yes
confirmedRun ==
  /\ promptLine \in Range(out)
  /\ pc \in {"backup", "apply", "done"}
  /\ "Upgrade cancelled." \notin Range(out)

C28_MissingTemplateDirIsRestored ==
  templateDirMissingAtStart =>
    /\ pc \in {"computed", "confirm", "answered", "backup", "apply"} =>
         \A file \in getAllFiles(pkgFs, vf0.template) :
           \E n \in 1..Len(mainChanges) :
             mainChanges[n].file = file /\ mainChanges[n].type = "added"
    /\ (confirmedRun /\ pc \in {"apply", "done"}) => backupDone
    /\ (confirmedRun /\ pc = "done" /\ ~crashed) =>
         /\ completed
         /\ \A file \in getAllFiles(pkgFs, vf0.template) :
              startsWithStatusBar(file) \/
                <<vf0.template>> \o file \in DOMAIN userFs
         /\ versionFile.state = "ok" /\ versionFile.version = pkgVersion

----------------------------------------------------------------------------
(* C29: the .orig file Apply writes for a conflict lies in the template    *)
(* directory or in the status-bar directory, so the baseline written at    *)
(* the end of that run has an entry for it; whenever a later run compares  *)
(* the user's files with a package that has no file at that path, the      *)
(* .orig file gets a 'removed' record, so a run never finds zero records   *)
(* while the .orig file exists.                                            *)

\* the .orig files of the user's template and status-bar directories that
\* the package does not ship
sidecars ==
  { p \in DOMAIN userFs :
      /\ p[1] \in {templateOf, STATUS_BAR}
      /\ \E q \in DOMAIN userFs \cup DOMAIN pkgFs \cup UserPaths : p = Orig(q)
      /\ p \notin DOMAIN pkgFs }

\* the comparison has a 'removed' record for the file at a path
reportedRemoved(p) ==
  LET list == IF p[1] = STATUS_BAR THEN statusBarChanges ELSE mainChanges
  IN \E n \in 1..Len(list) :
       list[n].file = Tail(p) /\ list[n].type = "removed"

C29_SidecarIsTrackedAndReported ==
  /\ completed =>
       \A n \in 1..Len(changes) :
         conflict(changes[n]) =>
           LET sidecar == Orig(userPathOf(changes[n]))
           IN /\ sidecar \in DOMAIN userFs
              /\ IF sidecar[1] = STATUS_BAR
                   THEN Tail(sidecar) \in DOMAIN versionFile.statusBarFiles
                   ELSE /\ sidecar[1] = versionFile.template
                        /\ Tail(sidecar) \in DOMAIN versionFile.files
  /\ (pc \in {"computed", "confirm"}) =>
       /\ \A p \in sidecars : reportedRemoved(p)
       /\ sidecars # {} => Len(changes) > 0

(* C29 as amended: the same, for the .orig files of a directory the        *)
(* package still ships; the status-bar directory of the user is compared   *)
(* only with a package that has a status-bar directory, so when that       *)
(* directory is gone from the package an .orig file of status-bar gets no  *)
(* record and a run can find zero records.                                 *)

comparedSidecars ==
  { p \in sidecars : p[1] = STATUS_BAR => pkgDirExists(STATUS_BAR) }

C29_SidecarReportedWhereCompared ==
  /\ completed =>
       \A n \in 1..Len(changes) :
         conflict(changes[n]) =>
           LET sidecar == Orig(userPathOf(changes[n]))
           IN /\ sidecar \in DOMAIN userFs
              /\ IF sidecar[1] = STATUS_BAR
                   THEN Tail(sidecar) \in DOMAIN versionFile.statusBarFiles
                   ELSE /\ sidecar[1] = versionFile.template
                        /\ Tail(sidecar) \in DOMAIN versionFile.files
  /\ (pc \in {"computed", "confirm"}) =>
       /\ \A p \in comparedSidecars : reportedRemoved(p)
       /\ comparedSidecars # {} => Len(changes) > 0

\* a forced run on a project whose baseline, written by a run with a
\* conflict, names the .orig file that run left in status-bar
C29_Witness ==
  /\ pc = "computed" /\ force
  /\ vf0.state = "ok" /\ vf0.version = pkgVersion
  /\ <<STATUS_BAR, "bar.css.orig">> \in comparedSidecars
  /\ <<"bar.css.orig">> \in DOMAIN vf0.statusBarFiles
  /\ reportedRemoved(<<STATUS_BAR, "bar.css.orig">>)

====
